---------------------------- MODULE Spec2Model ----------------------------
(***************************************************************************)
(* Model of backend/utils/validation.py: the part-data validator           *)
(* (validate_part_data and its stages) and the category-transition checker *)
(* (validate_category_transition).                                         *)
(*                                                                         *)
(* JSON values are tagged records; a Python str is a sequence of           *)
(* one-character strings; a Python dict is the sequence of its entries in  *)
(* insertion order.  A mapping such as `data` is a function over AllKeys   *)
(* whose value Absent stands for "key not in the dict".                    *)
(***************************************************************************)
EXTENDS Integers, Sequences, FiniteSets

\* ------------------------------------------------------------------ bounds

\* Largest number of keys present in an input mapping.
MaxKeys == 2

\* Largest number of characters before and after the run of letters in a
\* search query.
MaxAffix == 1

\* ------------------------------------------------------------- JSON values

Absent == [t |-> "absent"]
Null == [t |-> "null"]
JStr(s) == [t |-> "str", s |-> s]
JInt(i) == [t |-> "int", i |-> i]
JBool(b) == [t |-> "bool", b |-> b]
JFloat(tenths) == [t |-> "float", cls |-> "finite", tenths |-> tenths]
JFloatInf == [t |-> "float", cls |-> "inf", tenths |-> 0]
JFloatNaN == [t |-> "float", cls |-> "nan", tenths |-> 0]
JList(items) == [t |-> "list", items |-> items]
JDict(entries) == [t |-> "dict", entries |-> entries]
Entry(k, v) == [k |-> k, v |-> v]

\* isinstance(value, str)
IsStr(v) == v.t = "str"

\* isinstance(value, (str, int, float)): bool is a subclass of int in Python.
IsStrIntFloat(v) == v.t \in {"str", "int", "float", "bool"}

\* Python truth value of a JSON value (the `if x and ...` tests).
Truthy(v) ==
    CASE v.t = "null" -> FALSE
      [] v.t = "str" -> Len(v.s) > 0
      [] v.t = "int" -> v.i # 0
      [] v.t = "bool" -> v.b
      [] v.t = "float" -> ~(v.cls = "finite" /\ v.tenths = 0)
      [] v.t = "list" -> Len(v.items) > 0
      [] v.t = "dict" -> Len(v.entries) > 0
      [] OTHER -> FALSE

\* -------------------------------------------------------------- characters

UpperSeq == <<"A", "B", "C", "D", "E", "F", "G", "H", "I", "J", "K", "L", "M",
              "N", "O", "P", "Q", "R", "S", "T", "U", "V", "W", "X", "Y", "Z">>
LowerSeq == <<"a", "b", "c", "d", "e", "f", "g", "h", "i", "j", "k", "l", "m",
              "n", "o", "p", "q", "r", "s", "t", "u", "v", "w", "x", "y", "z">>
DigitSeq == <<"0", "1", "2", "3", "4", "5", "6", "7", "8", "9">>
Uppers == {UpperSeq[i] : i \in 1..26}
Lowers == {LowerSeq[i] : i \in 1..26}
Letters == Uppers \cup Lowers
Digits == {DigitSeq[i] : i \in 1..10}
\* The whitespace of the model's alphabet (str.strip, \s and int() agree on it).
Whitespace == {" ", "\t", "\n"}

IsSpace(c) == c \in Whitespace
DigitVal(c) == CHOOSE d \in 0..9 : DigitSeq[d + 1] = c

\* Pad(c, n): the string c * n
Pad(c, n) == [i \in 1..n |-> c]

\* str.lower() of one character
LowerChar(c) ==
    IF c \in Uppers THEN LowerSeq[CHOOSE i \in 1..26 : UpperSeq[i] = c] ELSE c

\* str.lower()
Lower(s) == [i \in 1..Len(s) |-> LowerChar(s[i])]

\* str.strip(): drop leading and trailing whitespace
Strip(s) ==
    LET keep == {i \in 1..Len(s) : ~IsSpace(s[i])}
    IN  IF keep = {} THEN <<>>
        ELSE LET lo == CHOOSE i \in keep : \A j \in 1..(i - 1) : IsSpace(s[j])
                 hi == CHOOSE i \in keep : \A j \in (i + 1)..Len(s) : IsSpace(s[j])
             IN  SubSeq(s, lo, hi)

\* ------------------------------------------------------------------ errors

\* ValidationError.field when no field is given (Python None).
NoneField == "<None>"

NoError == [kind |-> "none", field |-> NoneField, message |-> ""]

\* class ValidationError(Exception): message and optional field
ValidationError(message, field) ==
    [kind |-> "ValidationError", field |-> field, message |-> message]

\* An exception of another class escaping the validator.
Unhandled(kind, message) == [kind |-> kind, field |-> NoneField, message |-> message]

\* ---------------------------------------------------------------- mappings

string_fields == <<"type", "name", "part_id", "subsystem", "assigned", "status",
                   "notes", "file", "onshape_url">>
StringKeys == {string_fields[i] : i \in 1..Len(string_fields)}
AllKeys == StringKeys \cup {"amount", "misc_info", "miscInfo", "category"}

\* The empty dict {}
EmptyMapping == [k \in AllKeys |-> Absent]

\* `key in mapping`
Has(m, k) == m[k] # Absent
KeysOf(m) == {k \in AllKeys : Has(m, k)}

\* dict.update(other)
Update(m, other) == [k \in AllKeys |-> IF Has(other, k) THEN other[k] ELSE m[k]]

\* What a stage hands back: the exception it raised (or NoError) and its dict.
Raise(e) == [err |-> e, out |-> EmptyMapping]
Return(m) == [err |-> NoError, out |-> m]

\* ------------------------------------------------- validate_string_fields

max_lengths == [type |-> 50, name |-> 200, subsystem |-> 100, assigned |-> 100,
                status |-> 50, file |-> 200, onshape_url |-> 500, part_id |-> 100]

\* The mutant of LengthExceeds: an off-by-one comparison.
LengthExceedsOffByOne(field, value) ==
    field \in DOMAIN max_lengths /\ Len(Strip(value.s)) >= max_lengths[field]

\* max_len and len(value.strip()) > max_len
LengthExceeds(field, value) ==
    field \in DOMAIN max_lengths /\ Len(Strip(value.s)) > max_lengths[field]

\* The body of the loop for one field that is in data and not None.
StringFieldError(field, value) ==
    IF ~IsStr(value) THEN ValidationError("{field} must be a string", field)
    ELSE IF LengthExceeds(field, value)
         THEN ValidationError("{field} exceeds maximum length of {max_len} characters", field)
         ELSE NoError

validate_string_fields(data) ==
    LET checked == {i \in 1..Len(string_fields) :
                        Has(data, string_fields[i]) /\ data[string_fields[i]] # Null}
        bad == {i \in checked :
                    StringFieldError(string_fields[i], data[string_fields[i]]) # NoError}
    IN  IF bad # {}
        THEN LET i == CHOOSE i \in bad : \A j \in bad : i <= j
             IN  Raise(StringFieldError(string_fields[i], data[string_fields[i]]))
        ELSE Return([k \in AllKeys |->
                        IF \E i \in checked : string_fields[i] = k
                        THEN JStr(Strip(data[k].s)) ELSE Absent])

\* ------------------------------------------------ validate_numeric_fields

\* The digits of a decimal literal (underscores between digits skipped).
RECURSIVE DigitsValue(_)
DigitsValue(s) ==
    IF s = <<>> THEN 0
    ELSE LET init == SubSeq(s, 1, Len(s) - 1)
         IN  IF s[Len(s)] = "_" THEN DigitsValue(init)
             ELSE 10 * DigitsValue(init) + DigitVal(s[Len(s)])

\* int(str): surrounding whitespace, an optional sign, digits with single
\* underscores between them; anything else is a ValueError.
IntOfStr(s) ==
    LET t == Strip(s)
        signed == Len(t) > 0 /\ t[1] \in {"+", "-"}
        body == IF signed THEN SubSeq(t, 2, Len(t)) ELSE t
        wellFormed ==
            /\ Len(body) > 0
            /\ \A i \in 1..Len(body) : body[i] \in Digits \cup {"_"}
            /\ body[1] # "_" /\ body[Len(body)] # "_"
            /\ \A i \in 1..(Len(body) - 1) : ~(body[i] = "_" /\ body[i + 1] = "_")
    IN  IF ~wellFormed THEN [exc |-> "ValueError", val |-> 0]
        ELSE [exc |-> "none",
              val |-> IF signed /\ t[1] = "-" THEN -DigitsValue(body)
                      ELSE DigitsValue(body)]

\* int(float): truncation toward zero; infinity and NaN raise.
IntOfFloat(v) ==
    CASE v.cls = "inf" -> [exc |-> "OverflowError", val |-> 0]
      [] v.cls = "nan" -> [exc |-> "ValueError", val |-> 0]
      [] OTHER -> [exc |-> "none",
                   val |-> IF v.tenths >= 0 THEN v.tenths \div 10
                           ELSE -((-v.tenths) \div 10)]

\* int(value)
PyInt(v) ==
    CASE v.t = "int" -> [exc |-> "none", val |-> v.i]
      [] v.t = "bool" -> [exc |-> "none", val |-> IF v.b THEN 1 ELSE 0]
      [] v.t = "float" -> IntOfFloat(v)
      [] v.t = "str" -> IntOfStr(v.s)
      [] OTHER -> [exc |-> "TypeError", val |-> 0]

\* isinstance(value, bool)
IsBoolean(value) == value.t = "bool"

\* parsed_value <= 0
NotPositive(parsed_value) == parsed_value <= 0

\* _parse_positive_int(value, field, default_value): [err, val]
parse_positive_int(value, field, default_value) ==
    IF value = Null \/ value = JStr(<<>>) THEN [err |-> NoError, val |-> default_value]
    ELSE IF IsBoolean(value)
    THEN [err |-> ValidationError("{field} must be a number", field), val |-> 0]
    ELSE LET parsed == PyInt(value)
         IN  IF parsed.exc \in {"TypeError", "ValueError"}
             THEN [err |-> ValidationError("{field} must be a number", field), val |-> 0]
             ELSE IF parsed.exc # "none"
             THEN [err |-> Unhandled(parsed.exc, "cannot convert float infinity to integer"),
                   val |-> 0]
             ELSE IF NotPositive(parsed.val)
             THEN [err |-> ValidationError("{field} must be greater than 0", field), val |-> 0]
             ELSE [err |-> NoError, val |-> parsed.val]

\* The mutant of validate_numeric_fields: the default stored for an absent key.
validate_numeric_fields_defaulting(data) ==
    LET r == parse_positive_int(IF Has(data, "amount") THEN data["amount"] ELSE Null,
                                "amount", 1)
    IN  IF r.err # NoError THEN Raise(r.err)
        ELSE Return([EmptyMapping EXCEPT !["amount"] = JInt(r.val)])

\* numeric_fields = {"amount": 1}
validate_numeric_fields(data) ==
    IF ~Has(data, "amount") THEN Return(EmptyMapping)
    ELSE LET r == parse_positive_int(data["amount"], "amount", 1)
         IN  IF r.err # NoError THEN Raise(r.err)
             ELSE Return([EmptyMapping EXCEPT !["amount"] = JInt(r.val)])

\* ----------------------------------------------------- validate_misc_info

\* The outcome of cleaning one value: [ok, message, value].
Cleaned(value) == [ok |-> TRUE, message |-> "", value |-> value]
Rejected(message) == [ok |-> FALSE, message |-> message, value |-> Null]

\* The first rejection of a sequence of outcomes (the loop raises there).
FirstRejected(results) ==
    results[CHOOSE i \in 1..Len(results) :
                ~results[i].ok /\ \A j \in 1..(i - 1) : results[j].ok]

AnyRejected(results) == \E i \in 1..Len(results) : ~results[i].ok

\* _validate_misc_dict_value(raw_dict): keys decoded from JSON are strings, so
\* the isinstance(nested_key, str) test never fails.
validate_misc_dict_value(raw_dict) ==
    IF raw_dict.t # "dict" THEN Rejected("misc_info object must be a dictionary")
    ELSE LET es == raw_dict.entries
             results == [i \in 1..Len(es) |->
                 IF es[i].v = Null \/ IsStrIntFloat(es[i].v) THEN Cleaned(es[i].v)
                 ELSE Rejected("misc_info object values must be string or number")]
         IN  IF AnyRejected(results) THEN FirstRejected(results)
             ELSE Cleaned(JDict(SelectSeq(es, LAMBDA e : e.v # Null)))

\* _validate_misc_list_value(raw_list)
validate_misc_list_value(raw_list) ==
    IF raw_list.t # "list" THEN Rejected("misc_info list must be an array")
    ELSE LET items == raw_list.items
             results == [i \in 1..Len(items) |->
                 IF items[i] = Null \/ IsStrIntFloat(items[i]) THEN Cleaned(items[i])
                 ELSE IF items[i].t = "dict" THEN validate_misc_dict_value(items[i])
                 ELSE Rejected("misc_info list items must be string, number, or object")]
             kept == SelectSeq(results, LAMBDA r : r.value # Null)
         IN  IF AnyRejected(results) THEN FirstRejected(results)
             ELSE Cleaned(JList([i \in 1..Len(kept) |-> kept[i].value]))

\* _clean_misc_value(value): a Cleaned value of Null is an entry to skip.
clean_misc_value(value) ==
    IF value = Null THEN Cleaned(Null)
    ELSE IF IsStrIntFloat(value) THEN Cleaned(value)
    ELSE IF value.t = "list" THEN validate_misc_list_value(value)
    ELSE IF value.t = "dict" THEN validate_misc_dict_value(value)
    ELSE Rejected("misc_info values must be string, number, list, or object")

\* data.get("misc_info", data.get("miscInfo"))
RawMisc(data) ==
    IF Has(data, "misc_info") THEN data["misc_info"]
    ELSE IF Has(data, "miscInfo") THEN data["miscInfo"] ELSE Null

validate_misc_info(data) ==
    IF ~Has(data, "misc_info") /\ ~Has(data, "miscInfo") THEN Return(EmptyMapping)
    ELSE LET raw_misc == RawMisc(data)
         IN  IF raw_misc = Null THEN Return([EmptyMapping EXCEPT !["misc_info"] = Null])
             ELSE IF raw_misc.t # "dict"
             THEN Raise(ValidationError("misc_info must be an object", "misc_info"))
             ELSE LET es == raw_misc.entries
                      results == [i \in 1..Len(es) |-> clean_misc_value(es[i].v)]
                      keptIdx == {i \in 1..Len(es) : results[i].value # Null}
                      RECURSIVE Build(_)
                      Build(n) ==
                          IF n = 0 THEN <<>>
                          ELSE IF n \in keptIdx
                               THEN Append(Build(n - 1), Entry(es[n].k, results[n].value))
                               ELSE Build(n - 1)
                      cleaned == Build(Len(es))
                  IN  IF AnyRejected(results)
                      THEN Raise(ValidationError(FirstRejected(results).message, "misc_info"))
                      ELSE Return([EmptyMapping EXCEPT !["misc_info"] =
                                      IF Len(cleaned) > 0 THEN JDict(cleaned) ELSE Null])

\* ---------------------------------------------------- validate_part_type

valid_types == {<<"c", "n", "c">>, <<"h", "a", "n", "d">>}

\* The mutant of validate_part_type: the stored type keeps its casing.
validate_part_type_keep_case(validated_data) ==
    IF ~Has(validated_data, "type") THEN Return(validated_data)
    ELSE LET part_type == validated_data["type"]
         IN  IF Truthy(part_type) /\ Lower(part_type.s) \notin valid_types
             THEN Raise(ValidationError("type must be 'cnc' or 'hand'", "type"))
             ELSE Return([validated_data EXCEPT !["type"] =
                             IF Truthy(part_type) THEN part_type ELSE Null])

\* validate_part_type(validated_data): "type" is in validated_data only as a str.
validate_part_type(validated_data) ==
    IF ~Has(validated_data, "type") THEN Return(validated_data)
    ELSE LET part_type == validated_data["type"]
         IN  IF Truthy(part_type) /\ Lower(part_type.s) \notin valid_types
             THEN Raise(ValidationError("type must be 'cnc' or 'hand'", "type"))
             ELSE Return([validated_data EXCEPT !["type"] =
                             IF Truthy(part_type) THEN JStr(Lower(part_type.s)) ELSE Null])

\* ----------------------------------------------------- validate_category

valid_categories == {<<"r", "e", "v", "i", "e", "w">>, <<"c", "n", "c">>,
                     <<"h", "a", "n", "d">>,
                     <<"c", "o", "m", "p", "l", "e", "t", "e", "d">>}

\* `value in list_of_str`: only a str equals a str.
InStrings(value, strings) == IsStr(value) /\ value.s \in strings

validate_category(data, validated_data) ==
    IF ~Has(data, "category") THEN Return(validated_data)
    ELSE LET category == data["category"]
         IN  IF Truthy(category) /\ ~InStrings(category, valid_categories)
             THEN Raise(ValidationError("category must be one of: review, cnc, hand, completed",
                                        "category"))
             ELSE Return([validated_data EXCEPT !["category"] = category])

\* ------------------------------------------------------- validate_status

valid_statuses == {<<"P", "e", "n", "d", "i", "n", "g">>,
                   <<"R", "e", "v", "i", "e", "w", "e", "d">>,
                   <<"A", "p", "p", "r", "o", "v", "e", "d">>,
                   <<"I", "n", " ", "P", "r", "o", "g", "r", "e", "s", "s">>,
                   <<"A", "l", "r", "e", "a", "d", "y", " ", "S", "t", "a", "r", "t", "e", "d">>,
                   <<"C", "o", "m", "p", "l", "e", "t", "e", "d">>,
                   <<"C", "a", "n", "c", "e", "l", "l", "e", "d">>}

\* The mutant of validate_status: the membership test left out.
validate_status_unchecked(data, validated_data) ==
    IF ~Has(data, "status") THEN Return(validated_data)
    ELSE Return([validated_data EXCEPT !["status"] = data["status"]])

validate_status(data, validated_data) ==
    IF ~Has(data, "status") THEN Return(validated_data)
    ELSE LET status == data["status"]
         IN  IF Truthy(status) /\ ~InStrings(status, valid_statuses)
             THEN Raise(ValidationError("status must be one of: {valid_statuses}", "status"))
             ELSE Return([validated_data EXCEPT !["status"] = status])

\* -------------------------------------------------- validate_onshape_url

\* s[from..] as a string
Drop(s, n) == SubSeq(s, n + 1, Len(s))

\* re.IGNORECASE match of a literal prefix
StartsWithIgnoreCase(s, prefix) ==
    Len(s) >= Len(prefix) /\ Lower(SubSeq(s, 1, Len(prefix))) = prefix

\* The segments of a host between its dots, by start position.
DotPositions(h) == {i \in 1..Len(h) : h[i] = "."}
SegmentStarts(h) == {1} \cup {p + 1 : p \in DotPositions(h)}
Segment(h, a) ==
    LET after == {p \in DotPositions(h) : p >= a}
    IN  IF after = {} THEN SubSeq(h, a, Len(h))
        ELSE SubSeq(h, a, (CHOOSE p \in after : \A q \in after : p <= q) - 1)
LastStart(h) == CHOOSE a \in SegmentStarts(h) : \A b \in SegmentStarts(h) : b <= a

\* [A-Z0-9](?:[A-Z0-9-]{0,61}[A-Z0-9])?
IsLabel(seg) ==
    /\ Len(seg) >= 1 /\ Len(seg) <= 63
    /\ \A i \in 1..Len(seg) : seg[i] \in Letters \cup Digits \cup {"-"}
    /\ seg[1] # "-" /\ seg[Len(seg)] # "-"

\* [A-Z]{2,6}
IsTld(seg) == Len(seg) >= 2 /\ Len(seg) <= 6 /\ \A i \in 1..Len(seg) : seg[i] \in Letters

\* (?:label\.)+[A-Z]{2,6}\.?
IsDomain(host) ==
    LET h == IF Len(host) > 0 /\ host[Len(host)] = "."
             THEN SubSeq(host, 1, Len(host) - 1) ELSE host
    IN  /\ Cardinality(SegmentStarts(h)) >= 2
        /\ IsTld(Segment(h, LastStart(h)))
        /\ \A a \in SegmentStarts(h) \ {LastStart(h)} : IsLabel(Segment(h, a))

\* \d{1,3}\.\d{1,3}\.\d{1,3}\.\d{1,3}
IsDottedQuad(host) ==
    /\ Cardinality(SegmentStarts(host)) = 4
    /\ \A a \in SegmentStarts(host) :
           LET seg == Segment(host, a)
           IN  Len(seg) >= 1 /\ Len(seg) <= 3 /\ \A i \in 1..Len(seg) : seg[i] \in Digits

IsHost(host) ==
    \/ IsDomain(host)
    \/ Lower(host) = <<"l", "o", "c", "a", "l", "h", "o", "s", "t">>
    \/ IsDottedQuad(host)

\* The length of the longest prefix of s whose characters are all in chars.
RunLength(s, chars) ==
    IF \A i \in 1..Len(s) : s[i] \in chars THEN Len(s)
    ELSE (CHOOSE i \in 1..Len(s) : s[i] \notin chars /\ \A j \in 1..(i - 1) : s[j] \in chars) - 1

\* (?:/?|[/?]\S+)$ : `$` also matches before a final newline.
IsPathToEnd(t) ==
    LET Base(u) ==
            \/ u = <<>>
            \/ u = <<"/">>
            \/ Len(u) >= 2 /\ u[1] \in {"/", "?"} /\ \A i \in 2..Len(u) : ~IsSpace(u[i])
    IN  Base(t) \/ (Len(t) > 0 /\ t[Len(t)] = "\n" /\ Base(SubSeq(t, 1, Len(t) - 1)))

\* _is_valid_url(url): the host is the longest run of host characters after the
\* scheme, since what follows it starts with ":", "/" or "?" or is the end.
is_valid_url(url) ==
    LET schemeLen == IF StartsWithIgnoreCase(url, <<"h", "t", "t", "p", ":", "/", "/">>) THEN 7
                     ELSE IF StartsWithIgnoreCase(url, <<"h", "t", "t", "p", "s", ":", "/", "/">>)
                          THEN 8 ELSE 0
        rest == Drop(url, schemeLen)
        hostLen == RunLength(rest, Letters \cup Digits \cup {"-", "."})
        afterHost == Drop(rest, hostLen)
        hasPort == Len(afterHost) > 0 /\ afterHost[1] = ":"
        portLen == IF hasPort THEN RunLength(Drop(afterHost, 1), Digits) ELSE 0
        afterPort == IF hasPort THEN Drop(afterHost, 1 + portLen) ELSE afterHost
    IN  /\ schemeLen > 0
        /\ IsHost(SubSeq(rest, 1, hostLen))
        /\ hasPort => portLen >= 1
        /\ IsPathToEnd(afterPort)

validate_onshape_url(validated_data) ==
    IF ~Has(validated_data, "onshape_url") THEN Return(validated_data)
    ELSE LET url == validated_data["onshape_url"]
         IN  IF Truthy(url) /\ ~is_valid_url(url.s)
             THEN Raise(ValidationError("onshape_url must be a valid URL", "onshape_url"))
             ELSE Return(validated_data)

\* ------------------------------------------- validate_category_transition

s_review == <<"r", "e", "v", "i", "e", "w">>
s_cnc == <<"c", "n", "c">>
s_hand == <<"h", "a", "n", "d">>
s_completed == <<"c", "o", "m", "p", "l", "e", "t", "e", "d">>

\* The mutant of valid_transitions: cnc and hand may move to each other.
valid_transitions_sideways ==
    [c \in valid_categories |->
        CASE c = s_review -> {s_cnc, s_hand, s_completed}
          [] c = s_cnc -> {s_completed, s_hand}
          [] c = s_hand -> {s_completed, s_cnc}
          [] OTHER -> {s_cnc, s_hand}]

valid_transitions ==
    [c \in valid_categories |->
        CASE c = s_review -> {s_cnc, s_hand, s_completed}
          [] c = s_cnc -> {s_completed}
          [] c = s_hand -> {s_completed}
          [] OTHER -> {s_cnc, s_hand}]

\* The mutant of TypeMismatch: the type rule never applied.
TypeMismatchNever(new_category, part_type) == FALSE

\* The mutant of TypeMismatch: the type rule applied to every target category.
TypeMismatchAnywhere(new_category, part_type) ==
    Truthy(part_type) /\ new_category # part_type

\* new_category in ["cnc", "hand"] and part_type (truthy), and they differ
TypeMismatch(new_category, part_type) ==
    /\ InStrings(new_category, {s_cnc, s_hand})
    /\ Truthy(part_type)
    /\ new_category # part_type

\* validate_category_transition(current_category, new_category, part_type):
\* the exception raised, or NoError when it returns True.
validate_category_transition(current_category, new_category, part_type) ==
    IF ~InStrings(current_category, DOMAIN valid_transitions)
    THEN ValidationError("Invalid current category: {current_category}", NoneField)
    ELSE IF ~InStrings(new_category, valid_transitions[current_category.s])
    THEN ValidationError("Cannot transition from {current_category} to {new_category}", NoneField)
    ELSE IF TypeMismatch(new_category, part_type)
    THEN ValidationError("Part type {part_type} cannot be moved to {new_category} category",
                         NoneField)
    ELSE NoError

\* -------------------------------------------------- sanitize_search_query

\* The characters [^\w\s\-\.] does not match: word characters, whitespace,
\* hyphen and period.
WordChars == Letters \cup Digits \cup {"_"}
IsKept(c) == c \in WordChars \cup Whitespace \cup {"-", "."}

\* re.sub(r"[^\w\s\-\.]", "", query)
RemoveHarmful(s) == SelectSeq(s, IsKept)

max_query_length == 100

\* The mutant of LimitLength: the limit applied one character late.
LimitLengthOffByOne(s) ==
    IF Len(s) > max_query_length + 1 THEN SubSeq(s, 1, max_query_length + 1) ELSE s

\* if len(sanitized) > 100: sanitized = sanitized[:100]
LimitLength(s) == IF Len(s) > max_query_length THEN SubSeq(s, 1, max_query_length) ELSE s

\* sanitize_search_query(query), for a query that is a str or None
sanitize_search_query(q) ==
    IF ~Truthy(q) THEN JStr(<<>>)
    ELSE JStr(LimitLength(Strip(RemoveHarmful(q.s))))

\* ------------------------------------------------------------------ inputs

\* The values an input mapping may hold under each key.
InputValues(k) ==
    CASE k = "type" ->
            {Null, JStr(<<>>), JStr(<<" ", "C", "N", "C", " ">>), JStr(s_hand), JStr(<<"b", "o", "a", "t">>), JInt(5),
             JStr(<<"\t", " ">>), JStr(Pad("a", 50)), JStr(Pad("a", 51))}
      [] k = "name" ->
            {Null, JStr(<<" ", "a", "b", "\t">>), JBool(TRUE), JStr(Pad("a", 200)), JStr(Pad("a", 201)),
             JStr(<<" ">> \o Pad("a", 200))}
      [] k = "part_id" ->
            {JStr(<<"p", "1">>), JInt(7), JStr(Pad("a", 100)), JStr(Pad("a", 101))}
      [] k = "subsystem" ->
            {JStr(<<"a", "r", "m", " ">>), JList(<<>>), JStr(Pad("a", 100)), JStr(Pad("a", 101))}
      [] k = "assigned" ->
            {JStr(<<"b", "o", "b">>), JFloat(15), JStr(Pad("a", 100) \o <<" ">>), JStr(Pad("a", 101))}
      [] k = "status" ->
            {Null, JStr(<<>>), JStr(<<"P", "e", "n", "d", "i", "n", "g">>), JStr(<<" ", "P", "e", "n", "d", "i", "n", "g", " ">>), JStr(<<"p", "e", "n", "d", "i", "n", "g">>),
             JInt(0), JStr(Pad("a", 50)), JStr(Pad("a", 51))}
      [] k = "notes" ->
            {JStr(<<"\n", " ", "a", " ", "n", "o", "t", "e", " ", " ">>), JDict(<<>>), JStr(Pad("a", 501))}
      [] k = "file" ->
            {JStr(<<"f", ".", "s", "t", "e", "p">>), JBool(FALSE), JStr(Pad("a", 200)), JStr(Pad("a", 201))}
      [] k = "onshape_url" ->
            {Null, JStr(<<>>), JStr(<<" ", "h", "t", "t", "p", "s", ":", "/", "/", "a", ".", "c", "o", "/", "x", "?", "y", "=", "1", " ">>), JStr(<<"f", "t", "p", ":", "/", "/", "x", ".", "c", "o", "m">>), JInt(1),
             JStr(<<"h", "t", "t", "p", ":", "/", "/", "a", ".", "c", "o", "/">> \o Pad("a", 488)), JStr(Pad("a", 500)),
             JStr(<<"h", "t", "t", "p", ":", "/", "/", "a", ".", "c", "o", "/">> \o Pad("a", 489))}
      [] k = "amount" ->
            {Null, JStr(<<>>), JBool(TRUE), JBool(FALSE), JInt(5), JInt(0), JInt(-3),
             JStr(<<"5">>), JStr(<<" ", "1", "2">>), JStr(<<"-", "3">>), JStr(<<"5", ".", "0">>),
             JFloat(57), JFloat(5), JFloatInf, JFloatNaN, JList(<<JInt(1)>>)}
      [] k = "category" ->
            {Null, JStr(<<>>), JStr(s_review), JStr(s_cnc), JStr(s_hand), JStr(s_completed),
             JStr(<<" ", "c", "n", "c">>), JStr(<<"R", "e", "v", "i", "e", "w">>), JInt(0), JInt(3), JList(<<>>)}
      [] k = "misc_info" ->
            {Null, JDict(<<>>), JList(<<>>), JStr(<<"x">>),
             JDict(<<Entry("a", JInt(1)), Entry("b", JStr(<<" ", "x">>)), Entry("c", JFloat(25))>>),
             JDict(<<Entry("a", JList(<<JInt(1), JStr(<<"x">>), JDict(<<Entry("b", JInt(2))>>)>>))>>),
             JDict(<<Entry("a", Null), Entry("b", JList(<<Null, JDict(<<Entry("c", Null)>>)>>))>>),
             JDict(<<Entry("a", Null)>>),
             JDict(<<Entry("a", JDict(<<Entry("b", JInt(2)), Entry("c", Null)>>))>>),
             JDict(<<Entry("a", JBool(TRUE))>>),
             JDict(<<Entry("a", JList(<<JBool(FALSE)>>))>>),
             JDict(<<Entry("a", JDict(<<Entry("b", JBool(TRUE))>>))>>),
             JDict(<<Entry("a", JList(<<JInt(1), JList(<<JInt(2)>>)>>))>>),
             JDict(<<Entry("a", JDict(<<Entry("b", JList(<<JInt(1)>>))>>))>>),
             JDict(<<Entry("a", JDict(<<Entry("b", JDict(<<>>))>>))>>),
             JDict(<<Entry("a", JList(<<JDict(<<Entry("b", JDict(<<>>))>>)>>))>>)}
      [] OTHER ->
            {Null, JInt(4), JDict(<<Entry("a", JInt(1))>>),
             JDict(<<Entry("a", JList(<<JList(<<>>)>>))>>)}

\* The input mappings with the keys K present.
RECURSIVE InputsOver(_)
InputsOver(K) ==
    IF K = {} THEN {EmptyMapping}
    ELSE LET k == CHOOSE k \in K : TRUE
         IN  {[d EXCEPT ![k] = v] : d \in InputsOver(K \ {k}), v \in InputValues(k)}

\* The sets of at most MaxKeys keys an input mapping may hold.
KeySets == {K \in SUBSET AllKeys : Cardinality(K) <= MaxKeys}

\* The arguments of a validate_category_transition call.
CategoryInputs == {Null, JStr(<<>>), JStr(s_review), JStr(s_cnc), JStr(s_hand), JStr(s_completed),
                   JStr(<<"R", "e", "v", "i", "e", "w">>), JStr(<<"a", "r", "c", "h", "i", "v", "e", "d">>)}
PartTypeInputs == {Null, JStr(<<>>), JStr(s_cnc), JStr(s_hand), JStr(<<"C", "N", "C">>)}

\* The characters search queries are made of.
QueryChars == {"a", "Z", "7", "_", " ", "\t", "-", ".", ";", "'"}

\* The strings of at most n query characters.
RECURSIVE Affixes(_)
Affixes(n) ==
    IF n = 0 THEN {<<>>}
    ELSE LET shorter == Affixes(n - 1)
         IN  shorter \cup {Append(a, c) : a \in shorter, c \in QueryChars}

\* The lengths of the run of letters in the middle of a query, around the limit.
RunLengths == {0, 1, max_query_length - 2, max_query_length - 1, max_query_length,
               max_query_length + 1}

\* The arguments of a sanitize_search_query call: None, and strings made of a
\* run of letters between two short affixes.
QueryInputs ==
    {Null} \cup {JStr(before \o Pad("a", n) \o after) :
                    before \in Affixes(MaxAffix), n \in RunLengths, after \in Affixes(MaxAffix)}

\* ------------------------------------------------------------------- state

VARIABLES
    data,              \* the argument of the validate_part_data call in progress
    validated_data,    \* its accumulator
    pc,                \* the stage of validate_part_data to run next, or "returned"
    err,               \* the exception that ended the call, or NoError
    round,             \* 1: the first call; 2: the call on the first call's result
    first,             \* the result of the first call, once it is validated again
    current_category,  \* the arguments of the validate_category_transition call
    new_category,
    part_type,
    outcome,           \* Pending, or the call's exception (NoError: it returned True)
    left_review,       \* history: the part's category has once changed from review
    query,             \* the argument of the sanitize_search_query call
    sanitized          \* NotCalled, or the string the call returned

vars == <<data, validated_data, pc, err, round, first,
          current_category, new_category, part_type, outcome, left_review,
          query, sanitized>>
partVars == <<data, validated_data, pc, err, round, first>>
transitionVars == <<current_category, new_category, part_type, outcome, left_review>>
searchVars == <<query, sanitized>>

NotCalled == [t |-> "not called"]

Pending == [kind |-> "pending", field |-> NoneField, message |-> ""]

\* The mutant of stages: status is validated before category.
stages_status_first == <<"string_fields", "numeric_fields", "misc_info", "part_type", "status",
                         "category", "onshape_url", "returned">>

\* The statements of validate_part_data in order, and its return.
stages == <<"string_fields", "numeric_fields", "misc_info", "part_type", "category",
            "status", "onshape_url", "returned">>
StageIndex(p) == CHOOSE i \in 1..Len(stages) : stages[i] = p
NextStage(p) == stages[StageIndex(p) + 1]

\* One statement of validate_part_data: a stage that raised ends the call where
\* it is, a stage that returned hands its dict on.
Step(stage, result, merged) ==
    /\ pc = stage
    /\ err = NoError
    /\ IF result.err # NoError
       THEN err' = result.err /\ UNCHANGED <<pc, validated_data>>
       ELSE err' = NoError /\ pc' = NextStage(stage) /\ validated_data' = merged
    /\ UNCHANGED <<data, round, first, transitionVars, searchVars>>

\* validated_data.update(validate_string_fields(data))
ValidateStringFields ==
    LET r == validate_string_fields(data)
    IN  Step("string_fields", r, Update(validated_data, r.out))

\* validated_data.update(validate_numeric_fields(data))
ValidateNumericFields ==
    LET r == validate_numeric_fields(data)
    IN  Step("numeric_fields", r, Update(validated_data, r.out))

\* validated_data.update(validate_misc_info(data))
ValidateMiscInfo ==
    LET r == validate_misc_info(data)
    IN  Step("misc_info", r, Update(validated_data, r.out))

\* validate_part_type(validated_data)
ValidatePartType ==
    LET r == validate_part_type(validated_data)
    IN  Step("part_type", r, r.out)

\* validate_category(data, validated_data)
ValidateCategory ==
    LET r == validate_category(data, validated_data)
    IN  Step("category", r, r.out)

\* validate_status(data, validated_data)
ValidateStatus ==
    LET r == validate_status(data, validated_data)
    IN  Step("status", r, r.out)

\* validate_onshape_url(validated_data); return validated_data
ValidateOnshapeUrl ==
    LET r == validate_onshape_url(validated_data)
    IN  Step("onshape_url", r, r.out)

\* The caller validates the mapping validate_part_data returned once more.
Revalidate ==
    /\ pc = "returned"
    /\ round = 1
    /\ data' = validated_data
    /\ first' = validated_data
    /\ validated_data' = EmptyMapping
    /\ pc' = "string_fields"
    /\ round' = 2
    /\ UNCHANGED <<err, transitionVars, searchVars>>

Init ==
    /\ \E K \in KeySets : data \in InputsOver(K)
    /\ validated_data = EmptyMapping
    /\ pc = "string_fields"
    /\ err = NoError
    /\ round = 1
    /\ first = EmptyMapping
    /\ current_category = Null
    /\ new_category = Null
    /\ part_type = Null
    /\ outcome = Pending
    /\ left_review = FALSE
    /\ query = Null
    /\ sanitized = NotCalled

Next ==
    \/ ValidateStringFields
    \/ ValidateNumericFields
    \/ ValidateMiscInfo
    \/ ValidatePartType
    \/ ValidateCategory
    \/ ValidateStatus
    \/ ValidateOnshapeUrl
    \/ Revalidate

Spec == Init /\ [][Next]_vars

\* A call of validate_category_transition on arguments drawn by Init.
CheckTransition ==
    /\ outcome = Pending
    /\ outcome' = validate_category_transition(current_category, new_category, part_type)
    /\ UNCHANGED <<current_category, new_category, part_type, left_review, partVars,
                   searchVars>>

TransitionInit ==
    /\ data = EmptyMapping
    /\ validated_data = EmptyMapping
    /\ pc = "returned"
    /\ err = NoError
    /\ round = 2
    /\ first = EmptyMapping
    /\ current_category \in CategoryInputs
    /\ new_category \in CategoryInputs
    /\ part_type \in PartTypeInputs
    /\ outcome = Pending
    /\ left_review = FALSE
    /\ query = Null
    /\ sanitized = NotCalled

TransitionNext == CheckTransition

TransitionSpec == TransitionInit /\ [][TransitionNext]_vars

\* A part's category proposed to change to n, with the part's type supplied:
\* the change is made only when validate_category_transition accepts it.
Move ==
    \E n \in CategoryInputs :
        LET result == validate_category_transition(current_category, n, part_type)
            accepted == result = NoError
        IN  /\ new_category' = n
            /\ outcome' = result
            /\ current_category' = IF accepted THEN n ELSE current_category
            /\ left_review' = (left_review \/ (accepted /\ current_category = JStr(s_review)
                                                        /\ n # JStr(s_review)))
            /\ UNCHANGED <<part_type, partVars, searchVars>>

WalkInit ==
    /\ data = EmptyMapping
    /\ validated_data = EmptyMapping
    /\ pc = "returned"
    /\ err = NoError
    /\ round = 2
    /\ first = EmptyMapping
    /\ current_category = JStr(s_review)
    /\ new_category = Null
    /\ part_type \in PartTypeInputs
    /\ outcome = Pending
    /\ left_review = FALSE
    /\ query = Null
    /\ sanitized = NotCalled

WalkNext == Move

WalkSpec == WalkInit /\ [][WalkNext]_vars

\* A call of sanitize_search_query on an argument drawn by Init.
Sanitize ==
    /\ sanitized = NotCalled
    /\ sanitized' = sanitize_search_query(query)
    /\ UNCHANGED <<query, partVars, transitionVars>>

SearchInit ==
    /\ data = EmptyMapping
    /\ validated_data = EmptyMapping
    /\ pc = "returned"
    /\ err = NoError
    /\ round = 2
    /\ first = EmptyMapping
    /\ current_category = Null
    /\ new_category = Null
    /\ part_type = Null
    /\ outcome = Pending
    /\ left_review = FALSE
    /\ query \in QueryInputs
    /\ sanitized = NotCalled

SearchNext == Sanitize

SearchSpec == SearchInit /\ [][SearchNext]_vars

\* ------------------------------------------------------------------ claims

\* The seven transitions the specification's table lists.
ListedTransitions ==
    {<<s_review, s_cnc>>, <<s_review, s_hand>>, <<s_review, s_completed>>,
     <<s_cnc, s_completed>>, <<s_hand, s_completed>>,
     <<s_completed, s_cnc>>, <<s_completed, s_hand>>}

Listed(current, new) ==
    IsStr(current) /\ IsStr(new) /\ <<current.s, new.s>> \in ListedTransitions

\* C1: with no part type given, validate_category_transition returns True
\* exactly on the seven listed transitions; every other pair (self-transitions
\* and transitions into review included) and every current value outside the
\* four categories (whatever the part type) raises a ValidationError.
C1_TransitionTable ==
    outcome # Pending =>
        /\ outcome.kind \in {"none", "ValidationError"}
        /\ part_type = Null => (outcome = NoError <=> Listed(current_category, new_category))
        /\ ~InStrings(current_category, valid_categories) => outcome.kind = "ValidationError"

\* C1 witness: a listed transition accepted with no part type.
C1_Witness ==
    /\ outcome = NoError
    /\ part_type = Null
    /\ current_category = JStr(s_completed)
    /\ new_category = JStr(s_hand)

\* C2 as claimed: on a listed transition into cnc or hand the call fails
\* whenever a part type is supplied (is not None) and differs from the new
\* category, and succeeds when it equals it or is not supplied; into completed
\* the part type never matters.
C2_TypeCouplingAsClaimed ==
    (outcome # Pending /\ Listed(current_category, new_category)) =>
        IF new_category.s \in {s_cnc, s_hand}
        THEN /\ (part_type # Null /\ part_type # new_category) => outcome.kind = "ValidationError"
             /\ (part_type = Null \/ part_type = new_category) => outcome = NoError
        ELSE outcome = NoError

\* C2 amended: the part type counts as supplied only when it is truthy: the
\* call fails whenever a non-empty part type differs from the new category
\* (cnc or hand), and succeeds when the part type equals it, is None or is the
\* empty string; into completed the part type never matters.
C2_TypeCoupling ==
    (outcome # Pending /\ Listed(current_category, new_category)) =>
        IF new_category.s \in {s_cnc, s_hand}
        THEN /\ (part_type \notin {Null, JStr(<<>>)} /\ part_type # new_category)
                    => outcome.kind = "ValidationError"
             /\ (part_type \in {Null, JStr(<<>>)} \/ part_type = new_category)
                    => outcome = NoError
        ELSE outcome = NoError

\* C2 witness: a hand part refused the cnc category on a listed transition.
C2_Witness ==
    /\ outcome.kind = "ValidationError"
    /\ current_category = JStr(s_completed)
    /\ new_category = JStr(s_cnc)
    /\ part_type = JStr(s_hand)

\* Whether the call in progress has ended, by a return or by an exception.
Returned == pc = "returned" /\ err = NoError
Failed == err # NoError

\* The rules of each validation group, read off the raw input: a string field
\* that is no string or is too long; an amount that does not resolve to a
\* positive integer; a misc_info that is refused; a type that is neither cnc
\* nor hand in any casing; a category or status outside its enum; an
\* onshape_url that is no URL.
ViolatesGroup(group, d) ==
    CASE group = "string_fields" ->
            \E f \in StringKeys :
                /\ Has(d, f) /\ d[f] # Null
                /\ \/ ~IsStr(d[f])
                   \/ f \in DOMAIN max_lengths /\ Len(Strip(d[f].s)) > max_lengths[f]
      [] group = "numeric_fields" ->
            Has(d, "amount") /\ parse_positive_int(d["amount"], "amount", 1).err # NoError
      [] group = "misc_info" -> validate_misc_info(d).err # NoError
      [] group = "part_type" ->
            /\ Has(d, "type") /\ IsStr(d["type"])
            /\ Strip(d["type"].s) # <<>>
            /\ Lower(Strip(d["type"].s)) \notin {s_cnc, s_hand}
      [] group = "category" ->
            Has(d, "category") /\ Truthy(d["category"])
                /\ ~InStrings(d["category"], valid_categories)
      [] group = "status" ->
            Has(d, "status") /\ Truthy(d["status"]) /\ ~InStrings(d["status"], valid_statuses)
      [] OTHER ->
            /\ Has(d, "onshape_url") /\ IsStr(d["onshape_url"])
            /\ Strip(d["onshape_url"].s) # <<>>
            /\ ~is_valid_url(Strip(d["onshape_url"].s))

\* The groups in the order the specification fixes.
GroupOrder == <<"string_fields", "numeric_fields", "misc_info", "part_type", "category",
                "status", "onshape_url">>

\* The fields whose name an error of the group may carry.
GroupFields(group) ==
    CASE group = "string_fields" -> StringKeys
      [] group = "numeric_fields" -> {"amount"}
      [] group = "misc_info" -> {"misc_info"}
      [] group = "part_type" -> {"type"}
      [] group = "category" -> {"category"}
      [] group = "status" -> {"status"}
      [] OTHER -> {"onshape_url"}

ViolatedGroups(d) == {i \in 1..Len(GroupOrder) : ViolatesGroup(GroupOrder[i], d)}

\* The place of the stage that raised among the groups (0: no group's stage).
GroupIndex(stage) ==
    IF \E i \in 1..Len(GroupOrder) : GroupOrder[i] = stage
    THEN CHOOSE i \in 1..Len(GroupOrder) : GroupOrder[i] = stage ELSE 0

\* C3: the exception that ends validate_part_data comes from the earliest
\* violated group in the order string fields, amount, misc_info, type,
\* category, status, onshape_url, and as a ValidationError it names a field
\* of that group; a later group's violation never surfaces while an earlier
\* group is violated, and an input that violates a group never validates.
C3_FirstViolationWins ==
    LET violated == ViolatedGroups(data)
    IN  /\ Failed =>
            /\ violated # {}
            /\ GroupIndex(pc) \in violated
            /\ \A i \in violated : GroupIndex(pc) <= i
            /\ err.kind = "ValidationError" => err.field \in GroupFields(pc)
        /\ Returned => violated = {}

\* C3 witness: an input that breaks the amount rule and the category rule
\* has failed on amount.
C3_Witness ==
    /\ Failed
    /\ ViolatesGroup("numeric_fields", data)
    /\ ViolatesGroup("category", data)
    /\ err.kind = "ValidationError"
    /\ err.field = "amount"

\* C4 as claimed: validating the result of a successful call again succeeds
\* and returns the same mapping, key for key.
C4_Idempotent ==
    round = 2 => /\ ~Failed
                 /\ Returned => validated_data = first

\* C5 as claimed: every key of the returned mapping is a key of the input.
C5_OnlyInputKeysAsClaimed ==
    Returned => KeysOf(validated_data) \subseteq KeysOf(data)

\* C5 amended: every key of the returned mapping is a key of the input, except
\* that misc_info is returned for an input that holds only its alias miscInfo;
\* no other key is added, and amount is returned only when amount is a key of
\* the input.
C5_OnlyInputKeys ==
    Returned =>
        /\ \A k \in KeysOf(validated_data) :
               Has(data, k) \/ (k = "misc_info" /\ Has(data, "miscInfo"))
        /\ Has(validated_data, "amount") => Has(data, "amount")

\* C5 witness: an input with miscInfo and a second key, but neither misc_info
\* nor amount, has been validated.
C5_Witness ==
    /\ Returned
    /\ round = 1
    /\ Has(data, "miscInfo") /\ ~Has(data, "misc_info") /\ ~Has(data, "amount")
    /\ Has(validated_data, "misc_info")
    /\ Cardinality(KeysOf(data)) = 2

\* C6 as claimed: when validation succeeds on an input with the category key
\* the returned category is review, cnc, hand or completed, and any other
\* category value ends in a ValidationError on field category (it never
\* validates, and the category stage raises on it).
C6_CategoryEnum ==
    Has(data, "category") =>
        /\ Returned => InStrings(validated_data["category"], valid_categories)
        /\ ~InStrings(data["category"], valid_categories) =>
               /\ StageIndex(pc) <= StageIndex("category")
               /\ (Failed /\ pc = "category") =>
                      err.kind = "ValidationError" /\ err.field = "category"

\* C7 as claimed: once the numeric stage has run on an input with the amount
\* key, either it raised a ValidationError on field amount or the amount it
\* stored is an integer greater than 0.
C7_AmountPositive ==
    (Has(data, "amount") /\ StageIndex(pc) >= StageIndex("numeric_fields")) =>
        IF pc = "numeric_fields"
        THEN Failed => err.kind = "ValidationError" /\ err.field = "amount"
        ELSE validated_data["amount"].t = "int" /\ validated_data["amount"].i > 0

\* The input holds the key field and nothing else.
OnlyKey(field) == KeysOf(data) = {field}

\* The string group refuses field: it is no string, or its trimmed length is
\* over its maximum.
Offends(field) ==
    /\ Has(data, field) /\ data[field] # Null
    /\ \/ ~IsStr(data[field])
       \/ field \in DOMAIN max_lengths /\ Len(Strip(data[field].s)) > max_lengths[field]

\* No string field before `field` in string_fields is refused.
FirstOffender(field) ==
    \A i, j \in 1..Len(string_fields) :
        (i < j /\ string_fields[j] = field) => ~Offends(string_fields[i])

\* C8 as claimed: for each of the eight fields with a maximum length, as the
\* only key of the input, a string longer than the maximum ends in a
\* ValidationError on that field and a string of exactly the maximum length
\* validates.
C8_MaxLengthAsClaimed ==
    \A f \in DOMAIN max_lengths :
        (OnlyKey(f) /\ IsStr(data[f])) =>
            /\ Len(data[f].s) > max_lengths[f] =>
                   /\ ~Returned
                   /\ Failed => err.kind = "ValidationError" /\ err.field = f
            /\ Len(data[f].s) = max_lengths[f] => ~Failed

\* C8 amended: the length that counts is the trimmed one.  A string whose
\* trimmed length exceeds the field's maximum never validates: the string
\* stage raises a ValidationError, on that field when no earlier string field
\* is refused.  As the only key of the input, a string whose trimmed length is
\* exactly the maximum validates for name, part_id, subsystem, assigned and
\* file; for onshape_url it validates exactly when it is a valid URL; for
\* type and status (maximum 50) it passes the length test and then fails the
\* enum test with a ValidationError on the same field.
C8_MaxLength ==
    \A f \in DOMAIN max_lengths :
        (Has(data, f) /\ IsStr(data[f])) =>
            LET n == Len(Strip(data[f].s))
            IN  /\ n > max_lengths[f] =>
                       /\ pc = "string_fields"
                       /\ Failed =>
                              /\ err.kind = "ValidationError"
                              /\ FirstOffender(f) =>
                                     /\ err.field = f
                                     /\ err.message =
                                            "{field} exceeds maximum length of {max_len} characters"
                /\ (n = max_lengths[f] /\ OnlyKey(f)) =>
                       CASE f \in {"type", "status"} ->
                                /\ ~Returned
                                /\ Failed => /\ err.kind = "ValidationError"
                                             /\ err.field = f
                                             /\ pc = (IF f = "type" THEN "part_type" ELSE f)
                         [] f = "onshape_url" ->
                                IF is_valid_url(Strip(data[f].s)) THEN ~Failed
                                ELSE /\ ~Returned
                                     /\ Failed => err.field = f /\ pc = "onshape_url"
                         [] OTHER -> ~Failed

\* C8 witness: a name of exactly 200 characters, the only key, has validated.
C8_Witness ==
    /\ Returned
    /\ round = 1
    /\ OnlyKey("name")
    /\ IsStr(data["name"])
    /\ Len(data["name"].s) = max_lengths["name"]
    /\ validated_data["name"] = data["name"]

\* The values the claim allows one level down: null, a string or a number.
IsNullStrNumber(v) == v.t \in {"null", "str", "int", "float"}

\* An object of string keys to null, string or number.
IsFlatObject(v) ==
    v.t = "dict" /\ \A i \in 1..Len(v.entries) : IsNullStrNumber(v.entries[i].v)

\* The misc_info values the claim allows.
IsClaimedMiscInfo(v) ==
    /\ v.t = "dict"
    /\ \A i \in 1..Len(v.entries) :
           LET x == v.entries[i].v
           IN  \/ IsNullStrNumber(x)
               \/ IsFlatObject(x)
               \/ /\ x.t = "list"
                  /\ \A j \in 1..Len(x.items) :
                         IsNullStrNumber(x.items[j]) \/ IsFlatObject(x.items[j])

\* C9 as claimed: a non-null misc_info gets past the misc_info stage only if it
\* is an object of null, string, number, list (of null, string, number or flat
\* object) or flat object values; a value of any other type at any depth, a
\* boolean included, makes the stage raise a ValidationError on misc_info.
C9_MiscInfoShape ==
    LET raw_misc == RawMisc(data)
    IN  raw_misc # Null =>
            /\ StageIndex(pc) > StageIndex("misc_info") => IsClaimedMiscInfo(raw_misc)
            /\ (Failed /\ pc = "misc_info") =>
                   err.kind = "ValidationError" /\ err.field = "misc_info"

\* A string with no leading or trailing whitespace.
IsTrimmed(s) == Len(s) = 0 \/ (~IsSpace(s[1]) /\ ~IsSpace(s[Len(s)]))

\* C10: in the mapping a successful validate_part_data returns, every string
\* field that holds a string has no leading or trailing whitespace; a non-null
\* value that is no string under any of the nine string fields makes the string
\* stage raise a ValidationError, which names that field when no earlier
\* string field is refused.
C10_TrimmedStrings ==
    \A f \in StringKeys :
        /\ (Returned /\ Has(validated_data, f) /\ IsStr(validated_data[f])) =>
               IsTrimmed(validated_data[f].s)
        /\ (Has(data, f) /\ data[f] # Null /\ ~IsStr(data[f])) =>
               /\ pc = "string_fields"
               /\ Failed =>
                      /\ err.kind = "ValidationError"
                      /\ err.field \in StringKeys
                      /\ FirstOffender(f) =>
                             err.field = f /\ err.message = "{field} must be a string"

\* C10 witness: a status and a second string field given with surrounding
\* whitespace have validated, and the mapping returned holds both trimmed.
C10_Witness ==
    /\ Returned
    /\ round = 1
    /\ \E f \in StringKeys \ {"status"} :
           /\ Has(data, f) /\ IsStr(data[f]) /\ ~IsTrimmed(data[f].s)
           /\ validated_data[f] = JStr(Strip(data[f].s))
    /\ Has(data, "status") /\ IsStr(validated_data["status"])
    /\ Len(validated_data["status"].s) > 0

\* C11 as claimed: every exception that ends validate_part_data is a
\* ValidationError with a message and the name of the offending field (not
\* None; misc_info when the misc_info stage raised, whichever alias the input
\* used), no exception of another class escapes, and every exception of
\* validate_category_transition is a ValidationError with a message and the
\* field None.
C11_OnlyValidationErrors ==
    /\ Failed =>
           /\ err.kind = "ValidationError"
           /\ err.message # ""
           /\ err.field \in AllKeys \ {"miscInfo"}
           /\ pc = "misc_info" => err.field = "misc_info"
    /\ outcome \notin {Pending, NoError} =>
           /\ outcome.kind = "ValidationError"
           /\ outcome.message # ""
           /\ outcome.field = NoneField

\* C12: whenever the type stage has passed on an input whose type is a string,
\* the stored type is cnc or hand, the lowercased trimmed input, or is None for
\* an empty or whitespace-only input; a returned type is always cnc, hand or
\* None; any other non-empty type string never gets past the type stage: the
\* string stage (too long) or the type stage raises a ValidationError, on
\* field type whenever the type stage raised or type is the only key.
C12_TypeNormalized ==
    /\ (Returned /\ Has(validated_data, "type")) =>
           validated_data["type"] \in {JStr(s_cnc), JStr(s_hand), Null}
    /\ (Has(data, "type") /\ IsStr(data["type"])) =>
           LET canonical == Lower(Strip(data["type"].s))
           IN  IF canonical \in {s_cnc, s_hand}
               THEN StageIndex(pc) > StageIndex("part_type") =>
                        validated_data["type"] = JStr(canonical)
               ELSE IF canonical = <<>>
               THEN StageIndex(pc) > StageIndex("part_type") =>
                        validated_data["type"] = Null
               ELSE /\ StageIndex(pc) <= StageIndex("part_type")
                    /\ (Failed /\ (pc = "part_type" \/ OnlyKey("type"))) =>
                           err.kind = "ValidationError" /\ err.field = "type"

\* C12 witness: the type " CNC " has been returned as cnc.
C12_Witness ==
    /\ Returned
    /\ round = 1
    /\ data["type"] = JStr(<<" ", "C", "N", "C", " ">>)
    /\ validated_data["type"] = JStr(s_cnc)

\* C13: sanitize_search_query returns a string for every string and for None:
\* the empty string for an empty or absent query, and otherwise the query with
\* every character other than word characters, whitespace, hyphen and period
\* removed, then trimmed, then cut to its first 100 characters; the result has
\* at most 100 characters, all of them allowed.
C13_Sanitized ==
    sanitized # NotCalled =>
        /\ IsStr(sanitized)
        /\ Len(sanitized.s) <= 100
        /\ \A i \in 1..Len(sanitized.s) :
               sanitized.s[i] \in Letters \cup Digits \cup {"_", " ", "\t", "\n", "-", "."}
        /\ IF query = Null \/ query = JStr(<<>>) THEN sanitized = JStr(<<>>)
           ELSE LET kept == {i \in 1..Len(query.s) :
                                query.s[i] \in Letters \cup Digits
                                                  \cup {"_", " ", "\t", "\n", "-", "."}}
                    solid == {i \in kept : query.s[i] \notin {" ", "\t", "\n"}}
                    \* the kept characters from the first to the last that is no whitespace
                    body == {i \in kept : /\ \E j \in solid : j <= i
                                          /\ \E j \in solid : i <= j}
                IN  /\ Len(sanitized.s) = IF Cardinality(body) > 100 THEN 100
                                          ELSE Cardinality(body)
                    /\ \A i \in body :
                           LET place == Cardinality({j \in body : j <= i})
                           IN  place <= 100 => sanitized.s[place] = query.s[i]

\* C13 witness: a query of more than 100 kept characters with harmful
\* characters and surrounding whitespace has been cut to 100 characters.
C13_Witness ==
    /\ sanitized # NotCalled
    /\ query # Null
    /\ Len(query.s) > 101
    /\ query.s[1] = " "
    /\ query.s[Len(query.s)] = ";"
    /\ Len(sanitized.s) = 100

\* C14: a part that starts at review and changes category only by accepted
\* transitions, with the same part type t (cnc or hand) supplied on every call,
\* is always at review, t or completed: never at the other manufacturing
\* category, and never at review again once it has left it.
C14_WalkStaysOnTrack ==
    \A t \in {s_cnc, s_hand} :
        part_type = JStr(t) =>
            /\ current_category \in {JStr(s_review), JStr(t), JStr(s_completed)}
            /\ left_review => current_category # JStr(s_review)

\* C14 witness: a cnc part that went through cnc to completed has just been
\* refused the hand category.
C14_Witness ==
    /\ part_type = JStr(s_cnc)
    /\ left_review
    /\ current_category = JStr(s_completed)
    /\ new_category = JStr(s_hand)
    /\ outcome \notin {Pending, NoError}
    /\ outcome.kind = "ValidationError"

=============================================================================
